---- MODULE Spec2Model ----
(***************************************************************************)
(* Floor-line estimation of ARFootBall: src/app.js (the unified frame      *)
(* processor) and src/FloorDetection.js (the stand-alone floor detector).  *)
(*                                                                         *)
(* Numbers.  Pixel coordinates are the Int32 values of lines.data32S.      *)
(* Every other number the code computes from them is a quotient of small   *)
(* integers and is kept exactly, as a fraction [n, d]; the slope string    *)
(* produced by toFixed(2) is kept as its sign and its digits (hundredths). *)
(* Within the coordinate bounds below a slope dy/dx has |dx| < 40, so the  *)
(* only values lying exactly between two 2-decimal numbers are multiples   *)
(* of 1/8, which a double holds exactly: toFixed(2) of the double and of   *)
(* the fraction agree.  Lengths are compared through their squares:        *)
(* Math.sqrt and Math.hypot are monotone on the integer inputs used here.  *)
(***************************************************************************)
EXTENDS Integers, Sequences, FiniteSets, TLC

(***************************************************************************)
(* Bounds of the model                                                     *)
(***************************************************************************)
\* largest pixel coordinate of the single-segment classification inputs
MaxCoord == 24
\* longest list of raw segments one HoughLinesP call returns in the model
MaxLines == 3

(***************************************************************************)
(* Program constants                                                       *)
(***************************************************************************)
\* `if (length < 20) continue;`
MinLength == 20
\* `Math.abs(slope) < 0.1`, in hundredths
MinSlopeCents == 10
\* `Math.abs(parseFloat(slope)) > 10`, in hundredths
MaxSlopeCents == 1000
\* `(dx || 0.0001)`: 1 / 0.0001
EpsilonInverse == 10000

Builds == {"app", "fd"}

Null == <<>>
Some(v) == <<v>>
IsNull(o) == o = <<>>
Val(o) == o[1]

Abs(i) == IF i < 0 THEN -i ELSE i
Max(a, b) == IF a > b THEN a ELSE b

RECURSIVE Gcd(_, _)
Gcd(a, b) == IF b = 0 THEN a ELSE Gcd(b, a % b)

\* the fraction n/d in lowest terms with a positive denominator
Rat(n, d) ==
    LET s == IF d < 0 THEN -1 ELSE 1
        g == Gcd(Abs(n), Abs(d))
    IN  [n |-> (s * n) \div g, d |-> (s * d) \div g]
RInt(i) == [n |-> i, d |-> 1]
RSub(a, b) == Rat(a.n * b.d - b.n * a.d, a.d * b.d)
RMul(a, b) == Rat(a.n * b.n, a.d * b.d)
RDiv(a, b) == Rat(a.n * b.d, a.d * b.n)
RNeg(a) == [n |-> -a.n, d |-> a.d]
RLe(a, b) == a.n * b.d <= b.n * a.d

Segment(x1, y1, x2, y2) == [x1 |-> x1, y1 |-> y1, x2 |-> x2, y2 |-> y2]

(***************************************************************************)
(* Line classification (the loop over lines.rows)                          *)
(***************************************************************************)
\* dx * dx + dy * dy, the argument of Math.sqrt and the square of Math.hypot
SquaredLength(seg) ==
    LET dx == seg.x2 - seg.x1
        dy == seg.y2 - seg.y1
    IN  dx * dx + dy * dy

\* app.js: Math.sqrt(dx * dx + dy * dy) < 20
SqrtLengthTooShort(seg) == SquaredLength(seg) < MinLength * MinLength

\* FloorDetection.js: Math.hypot(dx, dy) < 20
HypotLengthTooShort(seg) == SquaredLength(seg) < MinLength * MinLength

\* dy / (dx || 0.0001)
RawSlope(seg) ==
    LET dx == seg.x2 - seg.x1
        dy == seg.y2 - seg.y1
    IN  IF dx = 0 THEN RInt(dy * EpsilonInverse) ELSE Rat(dy, dx)

\* toFixed(2) cutting the digits after the second instead of rounding
ToFixed2Truncating(x) ==
    LET a == Abs(x.n)
    IN  [neg |-> x.n < 0, digits |-> (100 * a) \div x.d]

\* Number.prototype.toFixed(2): the sign, and the integer n of hundredths
\* nearest to |x|, the larger one when two are equally near
ToFixed2(x) ==
    LET a == Abs(x.n)
    IN  [neg |-> x.n < 0, digits |-> (200 * a + x.d) \div (2 * x.d)]

\* ToNumber of a toFixed string (the coercion Math.abs applies), hundredths
StringToNumber(str) == IF str.neg THEN -str.digits ELSE str.digits

\* parseFloat of a toFixed string, hundredths
ParseFloat(str) == IF str.neg THEN 0 - str.digits ELSE str.digits

\* app.js lines 133-142: "skip", "left" or "right"
ClassifyApp(seg) ==
    IF SqrtLengthTooShort(seg) THEN "skip"
    ELSE LET slope == ToFixed2(RawSlope(seg))
         IN  IF Abs(StringToNumber(slope)) < MinSlopeCents
                \/ Abs(ParseFloat(slope)) > MaxSlopeCents
             THEN "skip"
             ELSE IF ParseFloat(slope) > 0 THEN "left" ELSE "right"

\* FloorDetection.js lines 50-62
ClassifyFD(seg) ==
    IF HypotLengthTooShort(seg) THEN "skip"
    ELSE LET slope == ParseFloat(ToFixed2(RawSlope(seg)))
         IN  IF Abs(slope) < MinSlopeCents \/ Abs(slope) > MaxSlopeCents
             THEN "skip"
             ELSE IF slope > 0 THEN "left" ELSE "right"

Classify(build, seg) == IF build = "app" THEN ClassifyApp(seg) ELSE ClassifyFD(seg)

\* the for loop from row i on, pushing onto leftLines / rightLines
RECURSIVE ClassifyLoop(_, _, _, _)
ClassifyLoop(build, rows, i, groups) ==
    IF i > Len(rows) THEN groups
    ELSE LET c == Classify(build, rows[i])
         IN  ClassifyLoop(build, rows, i + 1,
                 IF c = "left"
                 THEN [groups EXCEPT !.leftLines = Append(@, rows[i])]
                 ELSE IF c = "right"
                 THEN [groups EXCEPT !.rightLines = Append(@, rows[i])]
                 ELSE groups)

ClassifyRows(build, rows) ==
    ClassifyLoop(build, rows, 1, [leftLines |-> <<>>, rightLines |-> <<>>])

(***************************************************************************)
(* Best line selection                                                     *)
(***************************************************************************)
\* the reducer with lenA >= lenB ? a : b
LongerOfKeepFirst(a, b) == IF SquaredLength(a) >= SquaredLength(b) THEN a ELSE b

\* the reducer: lenA > lenB ? a : b
LongerOf(a, b) == IF SquaredLength(a) > SquaredLength(b) THEN a ELSE b

\* Array.prototype.reduce without an initial value, from element i on
RECURSIVE Reduce(_, _, _)
Reduce(group, i, acc) ==
    IF i > Len(group) THEN acc
    ELSE Reduce(group, i + 1, LongerOf(acc, group[i]))

getBestLine(group) ==
    IF Len(group) = 0 THEN Null ELSE Some(Reduce(group, 2, group[1]))

(***************************************************************************)
(* Floor estimate                                                          *)
(***************************************************************************)
\* app.js line 149
FloorBottomYApp(bestLeft, bestRight) == Rat(bestLeft.y2 + bestRight.y1, 2)

\* FloorDetection.js lines 70-74
FloorBottomYFD(bestLeft, bestRight) ==
    LET y_bottom_left == Max(bestLeft.y1, bestLeft.y2)
        y_bottom_right == Max(bestRight.y1, bestRight.y2)
    IN  Rat(y_bottom_left + y_bottom_right, 2)

FloorBottomYOf(build, bestLeft, bestRight) ==
    IF build = "app" THEN FloorBottomYApp(bestLeft, bestRight)
    ELSE FloorBottomYFD(bestLeft, bestRight)

(***************************************************************************)
(* Inputs of the line pipeline                                             *)
(***************************************************************************)
\* one segment from a corner of the square to any pixel of it
WideSegments ==
    { Segment(x1, y1, x2, y2) :
        x1 \in {0, MaxCoord}, y1 \in {0, MaxCoord},
        x2 \in 0 .. MaxCoord, y2 \in 0 .. MaxCoord }

\* the segments joining four points, in both directions
CorePoints == { <<0, 0>>, <<15, 20>>, <<30, 0>>, <<45, 60>> }
CoreSegments ==
    { Segment(p[1], p[2], q[1], q[2]) : p \in CorePoints, q \in CorePoints }

SeqsUpTo(S, n) == UNION { [1 .. k -> S] : k \in 0 .. n }

LineInputs == { <<s>> : s \in WideSegments } \cup SeqsUpTo(CoreSegments, MaxLines)

(***************************************************************************)
(* The page: one of the two scripts, its host and its frames                *)
(***************************************************************************)
\* frames delivered to the page in one run of the model
MaxFrames == 2

\* `camDir.x * 2`, `cameraDir.z * 2`
DepthScale == 2
\* src, gray, edges, kernel, lines
MatsPerFrame == 5
\* the cleanup line deletes src, gray, edges and lines
MatsDeleted == 4
\* the height of a canvas element of the page other than the 60 of its frames
PageCanvasHeight == 150

S(x1, y1, x2, y2) == Segment(x1, y1, x2, y2)

\* what the detector finds in the frames delivered: one group only (the other
\* segment is steeper than 10); an estimate at row 0 for app.js and at row 20
\* for FloorDetection.js; an estimate at the last row
FrameKinds ==
    { [width |-> 48, height |-> 80, rows |-> <<S(0, 0, 15, 20), S(0, 0, 2, 30)>>],
      [width |-> 64, height |-> 60, rows |-> <<S(15, 20, 0, 0), S(30, 0, 15, 20)>>],
      [width |-> 64, height |-> 60, rows |-> <<S(0, 0, 45, 60), S(0, 60, 45, 0)>>]
 }

\* the camera's forward direction (0, 0, -1) turned by its quaternion, x and z:
\* the camera looks along the x axis
CamDirs == { [x |-> 1, z |-> 0] }

VisionSteps == {"imread", "HoughLinesP"}
\* the step the environment lets throw (cv.imread throws by itself while the
\* runtime is not initialized)
ThrowPoints == {"none", "HoughLinesP", "projection", "send"}
\* estimatePoses: no pose, a foot scored 0.3 or less, a foot, a foot with
\* window.unityInstance undefined, a rejected promise
PoseResults == {"none", "weak", "foot", "footNoInstance", "rejected"}

VARIABLES
    lpc,        \* position in the line pipeline
    rows,       \* the raw segments of lines.data32S
    groups,     \* per build: leftLines and rightLines
    best,       \* per build: bestLeft and bestRight
    estimate,   \* per build: the floorBottomY computed, or Null
    build,                  \* the script the page runs: "app" or "fd"
    cvRuntime,              \* the OpenCV runtime is initialized (cv.imread works)
    cvReady,                \* app.js: let cvReady
    tfReady,                \* app.js: let tfReady
    detector,               \* app.js: detectorPromise: pending, ready, failed
    frameQueue,             \* app.js: const frameQueue
    floorBottomY,           \* let floorBottomY (either script)
    currentFloorPosition,   \* app.js: let currentFloorPosition
    canvas,                 \* app.js: the module-level canvas and the frame drawn on it
    handlers,               \* one per frame delivered: the image and its onload handler
    cameraEl,               \* document.getElementById('camera') finds an element
    unityPresent,           \* window.UnityInstance is set
    pageEls,                \* FloorDetection.js: the elements #canvas and #video
    liveMats,               \* cv.Mat objects created and not deleted
    escaped,                \* an exception left a frame handler uncaught
    last,                   \* what the latest floor-detection block did
    lastPose                \* what the latest pose block read

lineVars == <<lpc, rows, groups, best, estimate>>
pageVars == <<build, cvRuntime, cvReady, tfReady,
              detector, frameQueue, floorBottomY, currentFloorPosition, canvas,
              handlers, cameraEl, unityPresent, pageEls, liveMats, escaped,
              last, lastPose>>
vars == <<lineVars, pageVars>>

\* let isPlaced = false; never assigned
isPlaced == FALSE

NoFrame == 0
NoLast ==
    [ran |-> FALSE, height |-> 0, hasEstimate |-> FALSE, estimate |-> Null,
     cameraEl |-> FALSE, msgs |-> <<>>, threw |-> "none", caught |-> FALSE,
     mats |-> 0]
NoPose == [ran |-> FALSE, pixelsOwn |-> TRUE, dimsOwn |-> TRUE]

PageInit ==
    /\ build \in Builds
    /\ cvRuntime = FALSE
    /\ cvReady = FALSE
    /\ tfReady = FALSE
    /\ detector = IF build = "app" THEN "pending" ELSE "none"
    /\ frameQueue = <<>>
    /\ floorBottomY = Null
    /\ currentFloorPosition = Null
    /\ canvas = [width |-> 300, height |-> PageCanvasHeight, frame |-> NoFrame]
    /\ handlers = <<>>
    /\ cameraEl \in IF build = "app" THEN {FALSE} ELSE BOOLEAN
    /\ unityPresent \in BOOLEAN
    /\ pageEls \in IF build = "app"
                   THEN { [canvas |-> FALSE, video |-> FALSE, height |-> 0] }
                   ELSE { [canvas |-> c, video |-> v, height |-> h] :
                            c \in BOOLEAN, v \in BOOLEAN, h \in {60, PageCanvasHeight} }
    /\ liveMats = 0
    /\ escaped = FALSE
    /\ last = NoLast
    /\ lastPose = NoPose

LinesIdle ==
    /\ lpc = "idle"
    /\ rows = <<>>
    /\ groups = [b \in Builds |-> [leftLines |-> <<>>, rightLines |-> <<>>]]
    /\ best = [b \in Builds |-> [bestLeft |-> Null, bestRight |-> Null]]
    /\ estimate = [b \in Builds |-> Null]

PageIdle ==
    /\ build = "app"
    /\ cvRuntime = FALSE
    /\ cvReady = FALSE
    /\ tfReady = FALSE
    /\ detector = "pending"
    /\ frameQueue = <<>>
    /\ floorBottomY = Null
    /\ currentFloorPosition = Null
    /\ canvas = [width |-> 300, height |-> PageCanvasHeight, frame |-> NoFrame]
    /\ handlers = <<>>
    /\ cameraEl = FALSE
    /\ unityPresent = FALSE
    /\ pageEls = [canvas |-> FALSE, video |-> FALSE, height |-> 0]
    /\ liveMats = 0
    /\ escaped = FALSE
    /\ last = NoLast
    /\ lastPose = NoPose

(***************************************************************************)
(* The floor-detection block of a frame handler                            *)
(***************************************************************************)
\* (floorBottomY / height) * 2 - 1
NormalizedY(f, height) == RSub(RMul(RDiv(f, RInt(height)), RInt(2)), RInt(1))
\* -normalizedY * 0.5
YUnity(f, height) == RMul(RNeg(NormalizedY(f, height)), Rat(1, 2))

\* the Mats created before the step that throws
AllocatedBefore(step) ==
    CASE step = "imread" -> 0
      [] OTHER -> MatsPerFrame

\* the try blocks with every step inside one of them but the pose steps
TryBlockOfFloorOnly(b, step) ==
    IF step \in VisionSteps \cup {"projection", "send"}
    THEN "OpenCV Error" ELSE "uncaught"

\* the catch clause that receives an exception thrown at a step
TryBlockOf(b, step) ==
    IF step \in VisionSteps \cup {"projection", "send"} THEN "OpenCV Error"
    ELSE IF b = "app" /\ step \in {"awaitDetector", "estimatePoses", "footSend"}
    THEN "MoveNet Error"
    ELSE "uncaught"

\* floorBottomY cleared by a frame without an estimate
StoreFloorBottomYOrReset(old, est) == est

\* `if (bestLeft && bestRight) { floorBottomY = ...`
StoreFloorBottomY(old, est) == IF IsNull(est) THEN old ELSE est

\* SendMessage without the `if (window.UnityInstance)` around it
FloorMessagesUnguarded(reached, payload) ==
    IF reached
    THEN << [object |-> "FloorDetector", method |-> "OnReceiveFloorPosition",
             payload |-> payload] >>
    ELSE <<>>

\* UnityInstance.SendMessage("FloorDetector", "OnReceiveFloorPosition", ...)
\* once the block has reached it
FloorMessages(reached, payload) ==
    IF reached /\ unityPresent
    THEN << [object |-> "FloorDetector", method |-> "OnReceiveFloorPosition",
             payload |-> payload] >>
    ELSE <<>>

\* the step that throws: cv.imread when the runtime is not there, else the
\* step the environment picked
Thrower(throwAt) == IF ~cvRuntime THEN "imread" ELSE throwAt

\* `if (bestLeft && bestRight) { floorBottomY = ...`: the estimate of a frame
\* whose vision calls did not throw at step t
EstimateFromBest(b, t, bestLeft, bestRight) ==
    IF t \in VisionSteps \/ IsNull(bestLeft) \/ IsNull(bestRight) THEN Null
    ELSE Some(FloorBottomYOf(b, Val(bestLeft), Val(bestRight)))

\* the classification loop and the two getBestLine calls
EstimateOf(b, frame, t) ==
    LET g == ClassifyRows(b, frame.rows)
    IN  EstimateFromBest(b, t, getBestLine(g.leftLines), getBestLine(g.rightLines))

\* what a floor block leaves behind: the stored values, the messages, the
\* step that threw, and the Mats created and not deleted (the cleanup line
\* runs only when nothing threw and the block did not return early)
Outcome(t, est, returned, projThrew, anchor, msgs) ==
    LET threw == IF t \in VisionSteps THEN t
                 ELSE IF projThrew THEN "projection"
                 ELSE IF Len(msgs) > 0 /\ t = "send" THEN "send" ELSE "none"
    IN  [hasEstimate |-> ~IsNull(est),
         estimate |-> est,
         floorBottomY |-> StoreFloorBottomY(floorBottomY, est),
         anchor |-> anchor,
         msgs |-> msgs,
         threw |-> threw,
         returned |-> returned,
         mats |-> (IF t \in VisionSteps THEN AllocatedBefore(t) ELSE MatsPerFrame)
                  - (IF threw = "none" /\ ~returned THEN MatsDeleted ELSE 0)]

\* { x: camDir.x * 2, y: yUnity, z: camDir.z * 2 }
Position(camDir, y) ==
    [x |-> camDir.x * DepthScale, y |-> y, z |-> camDir.z * DepthScale]

\* app.js lines 148-170 once the estimate is known: `if (!cameraEl) return;`,
\* the projection, currentFloorPosition and the message.  canvas.height is
\* the height just set from image.height
AppProjection(frame, camDir, t, est, projected) ==
    Outcome(t, est,
            ~IsNull(est) /\ ~cameraEl,
            ~IsNull(est) /\ cameraEl /\ t = "projection",
            IF projected
            THEN Some(Position(camDir, YUnity(Val(est), frame.height)))
            ELSE currentFloorPosition,
            FloorMessages(projected,
                [format |-> "json",
                 pos |-> Position(camDir, YUnity(Val(est), frame.height))]))

\* app.js lines 106-179 on a frame
FloorBlockApp(frame, throwAt, camDir) ==
    LET t == Thrower(throwAt)
        est == EstimateOf("app", frame, t)
    IN  AppProjection(frame, camDir, t, est,
                      ~IsNull(est) /\ cameraEl /\ t # "projection")

\* sendFloorPositionToUnity, lines 88-118, once entered: the rows of the
\* element #canvas, cameraEl.object3D (a TypeError when the element is
\* missing) and the message
FDProjection(camDir, t, est, entered) ==
    Outcome(t, est,
            FALSE,
            entered /\ (~cameraEl \/ t = "projection"),
            currentFloorPosition,
            FloorMessages(entered /\ cameraEl /\ t # "projection" /\ ~isPlaced,
                [format |-> "csv",
                 pos |-> Position(camDir, YUnity(Val(est), pageEls.height))]))

\* FloorDetection.js lines 19-84 on a frame; sendFloorPositionToUnity is
\* entered past `if (!floorBaseY) return;` and `if (!canvas || !video) return;`
FloorBlockFD(frame, throwAt, camDir) ==
    LET t == Thrower(throwAt)
        est == EstimateOf("fd", frame, t)
    IN  FDProjection(camDir, t, est,
                     ~IsNull(est) /\ Val(est).n # 0 /\ pageEls.canvas /\ pageEls.video)

LinesInit ==
    /\ PageIdle
    /\ lpc = "classify"
    /\ rows \in LineInputs
    /\ groups = [b \in Builds |-> [leftLines |-> <<>>, rightLines |-> <<>>]]
    /\ best = [b \in Builds |-> [bestLeft |-> Null, bestRight |-> Null]]
    /\ estimate = [b \in Builds |-> Null]

ClassifyStep ==
    /\ lpc = "classify"
    /\ groups' = [b \in Builds |-> ClassifyRows(b, rows)]
    /\ lpc' = "select"
    /\ UNCHANGED <<rows, best, estimate, pageVars>>

SelectStep ==
    /\ lpc = "select"
    /\ best' = [b \in Builds |->
                  [bestLeft |-> getBestLine(groups[b].leftLines),
                   bestRight |-> getBestLine(groups[b].rightLines)]]
    /\ lpc' = "estimate"
    /\ UNCHANGED <<rows, groups, estimate, pageVars>>

EstimateStep ==
    /\ lpc = "estimate"
    /\ estimate' = [b \in Builds |->
                      IF ~IsNull(best[b].bestLeft) /\ ~IsNull(best[b].bestRight)
                      THEN Some(FloorBottomYOf(b, Val(best[b].bestLeft),
                                               Val(best[b].bestRight)))
                      ELSE Null]
    /\ lpc' = "done"
    /\ UNCHANGED <<rows, groups, best, pageVars>>

LinesNext == ClassifyStep \/ SelectStep \/ EstimateStep

SpecLines == LinesInit /\ [][LinesNext]_vars

(***************************************************************************)
(* The page's operations                                                   *)
(***************************************************************************)
Handler(frame) == [pc |-> "decoding", frame |-> Some(frame), pixels |-> NoFrame]
Finished(h) == [h EXCEPT !.pc = "done", !.frame = Null, !.pixels = NoFrame]

\* processBothDetectors(base64): a new Image whose src is the frame
processBothDetectors(frame) ==
    handlers' = Append(handlers, Handler(frame))

\* app.js processQueuedFrames: not reachable, queueFrame has no caller
processQueuedFrames(queue) ==
    IF Len(queue) > 0 /\ cvReady /\ tfReady
    THEN /\ handlers' = handlers \o [i \in 1 .. Len(queue) |-> Handler(queue[i])]
         /\ frameQueue' = <<>>
    ELSE /\ frameQueue' = queue
         /\ UNCHANGED handlers

\* app.js queueFrame: not reachable, nothing calls it
queueFrame(frame) == processQueuedFrames(Append(frameQueue, frame))

\* window.ReceiveWebcamFrame = window.ReceiveWebcamFrameFloor (app.js), and
\* window.ReceiveWebcamFrame (FloorDetection.js), up to the onload assignment
ReceiveWebcamFrame(frame) ==
    /\ Len(handlers) < MaxFrames
    /\ processBothDetectors(frame)
    /\ UNCHANGED <<lineVars, build, cvRuntime, cvReady, tfReady,
                   detector, frameQueue, floorBottomY, currentFloorPosition, canvas,
                   cameraEl, unityPresent, pageEls, liveMats, escaped, last, lastPose>>

\* the image cannot be decoded: onload never fires
ImageNeverLoads(id) ==
    /\ id \in 1 .. Len(handlers)
    /\ handlers[id].pc = "decoding"
    /\ handlers' = [handlers EXCEPT ![id] = Finished(@)]
    /\ UNCHANGED <<lineVars, build, cvRuntime, cvReady, tfReady,
                   detector, frameQueue, floorBottomY, currentFloorPosition, canvas,
                   cameraEl, unityPresent, pageEls, liveMats, escaped, last, lastPose>>

LastOf(frame, out) ==
    [ran |-> TRUE, height |-> frame.height, hasEstimate |-> out.hasEstimate,
     estimate |-> out.estimate, cameraEl |-> cameraEl, msgs |-> out.msgs,
     threw |-> out.threw,
     caught |-> out.threw # "none" /\ TryBlockOf(build, out.threw) # "uncaught",
     mats |-> out.mats]

\* app.js image.onload, lines 98-186: the canvas is redrawn, the floor block
\* runs, and the handler goes on to `await detectorPromise`; with the promise
\* settled the continuation runs before any other event
ImageOnLoadApp(id, throwAt, camDir) ==
    /\ build = "app"
    /\ id \in 1 .. Len(handlers)
    /\ handlers[id].pc = "decoding"
    /\ \E frame \in {Val(handlers[id].frame)} :
       \E out \in {FloorBlockApp(frame, throwAt, camDir)} :
       \E uncaught \in {out.threw # "none" /\ TryBlockOf(build, out.threw) = "uncaught"} :
       \E awaitThrows \in {~out.returned /\ detector = "failed"} :
           /\ canvas' = [width |-> frame.width, height |-> frame.height, frame |-> id]
           /\ floorBottomY' = out.floorBottomY
           /\ currentFloorPosition' = out.anchor
           /\ liveMats' = liveMats + out.mats
           /\ last' = LastOf(frame, out)
           /\ escaped' = (escaped \/ uncaught
                          \/ (awaitThrows
                              /\ TryBlockOf(build, "awaitDetector") = "uncaught"))
           /\ handlers' =
                [handlers EXCEPT ![id] =
                    IF out.returned \/ uncaught \/ awaitThrows THEN Finished(@)
                    ELSE IF detector = "ready"
                    THEN [@ EXCEPT !.pc = "awaitPoses", !.frame = Null, !.pixels = id]
                    ELSE [@ EXCEPT !.pc = "awaitDetector", !.frame = Null]]
    /\ UNCHANGED <<lineVars, build, cvRuntime, cvReady, tfReady,
                   detector, frameQueue, cameraEl, unityPresent, pageEls, lastPose>>

\* FloorDetection.js image.onload, lines 10-85
ImageOnLoadFD(id, throwAt, camDir) ==
    /\ build = "fd"
    /\ id \in 1 .. Len(handlers)
    /\ handlers[id].pc = "decoding"
    /\ \E frame \in {Val(handlers[id].frame)} :
       \E out \in {FloorBlockFD(frame, throwAt, camDir)} :
           /\ floorBottomY' = out.floorBottomY
           /\ currentFloorPosition' = out.anchor
           /\ liveMats' = liveMats + out.mats
           /\ last' = LastOf(frame, out)
           /\ escaped' = (escaped \/ (out.threw # "none"
                                      /\ TryBlockOf(build, out.threw) = "uncaught"))
           /\ handlers' = [handlers EXCEPT ![id] = Finished(@)]
    /\ UNCHANGED <<lineVars, build, cvRuntime, cvReady, tfReady,
                   detector, frameQueue, canvas, cameraEl, unityPresent, pageEls,
                   lastPose>>

\* detectorPromise resolves (lines 64-66): tfReady is set and every handler
\* waiting on it calls detector.estimatePoses(canvas), in one run of the
\* microtask queue
DetectorResolves ==
    /\ build = "app"
    /\ detector = "pending"
    /\ detector' = "ready"
    /\ tfReady' = TRUE
    /\ handlers' = [i \in 1 .. Len(handlers) |->
                      IF handlers[i].pc = "awaitDetector"
                      THEN [handlers[i] EXCEPT !.pc = "awaitPoses",
                                               !.pixels = canvas.frame]
                      ELSE handlers[i]]
    /\ UNCHANGED <<lineVars, build, cvRuntime, cvReady,
                   frameQueue, floorBottomY, currentFloorPosition, canvas, cameraEl,
                   unityPresent, pageEls, liveMats, escaped, last, lastPose>>

\* detectorPromise rejects (tf.setBackend, tf.ready or createDetector fails):
\* every `await detectorPromise` throws into its catch
DetectorRejects ==
    /\ build = "app"
    /\ detector = "pending"
    /\ detector' = "failed"
    /\ handlers' = [i \in 1 .. Len(handlers) |->
                      IF handlers[i].pc = "awaitDetector"
                      THEN Finished(handlers[i]) ELSE handlers[i]]
    /\ escaped' = (escaped \/ (TryBlockOf(build, "awaitDetector") = "uncaught"
                               /\ \E i \in 1 .. Len(handlers) :
                                     handlers[i].pc = "awaitDetector"))
    /\ UNCHANGED <<lineVars, build, cvRuntime, cvReady, tfReady,
                   frameQueue, floorBottomY, currentFloorPosition, canvas, cameraEl,
                   unityPresent, pageEls, liveMats, last, lastPose>>

\* app.js lines 186-211: estimatePoses settles; the foot position is
\* normalised by the canvas's width and height as they are now
PosesSettle(id, result) ==
    /\ build = "app"
    /\ id \in 1 .. Len(handlers)
    /\ handlers[id].pc = "awaitPoses"
    /\ LET foot == result \in {"foot", "footNoInstance"}
           thrower == IF result = "rejected" THEN "estimatePoses"
                      ELSE IF result = "footNoInstance" /\ unityPresent THEN "footSend"
                      ELSE "none"
       IN  /\ lastPose' = [ran |-> TRUE,
                           pixelsOwn |-> handlers[id].pixels = id,
                           dimsOwn |-> foot => canvas.frame = id]
           /\ escaped' = (escaped \/ (thrower # "none"
                                      /\ TryBlockOf(build, thrower) = "uncaught"))
    /\ handlers' = [handlers EXCEPT ![id] = Finished(@)]
    /\ UNCHANGED <<lineVars, build, cvRuntime, cvReady, tfReady,
                   detector, frameQueue, floorBottomY, currentFloorPosition, canvas,
                   cameraEl, unityPresent, pageEls, liveMats, last>>

\* the OpenCV runtime finishes initializing.  With the hook that
\* script.onload installs (lines 29-33) cv.onRuntimeInitialized runs and sets
\* cvReady; without it (the else branch, lines 34-43) cvReady stays false
RuntimeInitialized(hookInstalled) ==
    /\ ~cvRuntime
    /\ build = "fd" => ~hookInstalled
    /\ cvRuntime' = TRUE
    /\ cvReady' = hookInstalled
    /\ UNCHANGED <<lineVars, build, tfReady, detector, frameQueue, floorBottomY,
                   currentFloorPosition, canvas, handlers, cameraEl, unityPresent,
                   pageEls, liveMats, escaped, last, lastPose>>

\* window.cameraReady, lines 240-267: the scene with the #camera entity
cameraReady ==
    /\ build = "app"
    /\ ~cameraEl
    /\ cameraEl' = TRUE
    /\ UNCHANGED <<lineVars, build, cvRuntime, cvReady, tfReady,
                   detector, frameQueue, floorBottomY, currentFloorPosition, canvas,
                   handlers, unityPresent, pageEls, liveMats, escaped, last, lastPose>>

Next ==
    \/ \E frame \in FrameKinds : ReceiveWebcamFrame(frame)
    \/ \E id \in 1 .. MaxFrames : ImageNeverLoads(id)
    \/ \E id \in 1 .. MaxFrames, throwAt \in ThrowPoints, camDir \in CamDirs :
          ImageOnLoadApp(id, throwAt, camDir)
    \/ \E id \in 1 .. MaxFrames, throwAt \in ThrowPoints, camDir \in CamDirs :
          ImageOnLoadFD(id, throwAt, camDir)
    \/ DetectorResolves
    \/ DetectorRejects
    \/ \E id \in 1 .. MaxFrames, result \in PoseResults : PosesSettle(id, result)
    \/ \E hookInstalled \in BOOLEAN : RuntimeInitialized(hookInstalled)
    \/ cameraReady

Init == PageInit /\ LinesIdle
Spec == Init /\ [][Next]_vars

(***************************************************************************)
(* Properties of the line pipeline (checked under SpecLines)               *)
(***************************************************************************)
BestOfGroup(b, side) ==
    IF side = "left" THEN best[b].bestLeft ELSE best[b].bestRight
GroupOf(b, side) ==
    IF side = "left" THEN groups[b].leftLines ELSE groups[b].rightLines

IsLongest(group, i) ==
    \A j \in 1 .. Len(group) : SquaredLength(group[i]) >= SquaredLength(group[j])
FirstLongest(group) ==
    CHOOSE i \in 1 .. Len(group) :
        IsLongest(group, i) /\ \A j \in 1 .. (i - 1) : ~IsLongest(group, j)
LastLongest(group) ==
    CHOOSE i \in 1 .. Len(group) :
        IsLongest(group, i) /\ \A j \in (i + 1) .. Len(group) : ~IsLongest(group, j)

Selected == lpc \in {"estimate", "done"}

\* C3 as stated: getBestLine returns null for an empty group and otherwise a
\* member of maximal length, the FIRST of the members sharing that length.
C3_FirstOfLongest ==
    Selected =>
        \A b \in Builds, side \in {"left", "right"} :
            LET g == GroupOf(b, side)
                r == BestOfGroup(b, side)
            IN  IF Len(g) = 0 THEN IsNull(r)
                ELSE /\ ~IsNull(r)
                     /\ \A j \in 1 .. Len(g) :
                            SquaredLength(Val(r)) >= SquaredLength(g[j])
                     /\ Val(r) = g[FirstLongest(g)]

\* C3 amended: getBestLine returns null for an empty group and otherwise a
\* member of maximal length, the LAST of the members sharing that length.
C3_LastOfLongest ==
    Selected =>
        \A b \in Builds, side \in {"left", "right"} :
            LET g == GroupOf(b, side)
                r == BestOfGroup(b, side)
            IN  IF Len(g) = 0 THEN IsNull(r)
                ELSE /\ ~IsNull(r)
                     /\ \A j \in 1 .. Len(g) :
                            SquaredLength(Val(r)) >= SquaredLength(g[j])
                     /\ Val(r) = g[LastLongest(g)]

\* a selection was made from a group of three whose first and last members
\* differ and share the maximal length, the middle one being shorter
C3_TieSelected ==
    /\ Selected
    /\ \E b \in Builds, side \in {"left", "right"} :
          LET g == GroupOf(b, side)
          IN  /\ Len(g) = 3
              /\ g[1] # g[3]
              /\ IsLongest(g, 1) /\ IsLongest(g, 3) /\ ~IsLongest(g, 2)
              /\ ~IsNull(BestOfGroup(b, side))

\* the hundredths nearest to |dy / (dx or 0.0001)|, by quotient and remainder
NearestHundredths(seg) ==
    LET dx == Abs(seg.x2 - seg.x1)
        dy == Abs(seg.y2 - seg.y1)
    IN  IF dx = 0 THEN 100 * EpsilonInverse * dy
        ELSE LET q == (100 * dy) \div dx
                 r == (100 * dy) % dx
             IN  IF 2 * r >= dx THEN q + 1 ELSE q

SlopeSign(seg) ==
    LET dx == seg.x2 - seg.x1
        dy == seg.y2 - seg.y1
    IN  IF dy = 0 THEN 0
        ELSE IF dx = 0 THEN (IF dy > 0 THEN 1 ELSE -1)
        ELSE IF (dx > 0) = (dy > 0) THEN 1 ELSE -1

Admitted(seg) ==
    /\ SquaredLength(seg) >= 400
    /\ NearestHundredths(seg) >= 10
    /\ NearestHundredths(seg) <= 1000

PositiveAdmitted(seg) == Admitted(seg) /\ SlopeSign(seg) > 0
NegativeAdmitted(seg) == Admitted(seg) /\ SlopeSign(seg) < 0

InSeq(seg, s) == \E i \in 1 .. Len(s) : s[i] = seg

\* C4: a raw segment is put in a group iff its length is >= 20 and its slope,
\* rounded to two decimals, has magnitude in [0.1, 10]; it goes to the
\* positive group exactly when the slope is > 0 and to the other exactly when
\* it is < 0, never to both; dx = 0 or dy = 0 is in neither; and app.js and
\* FloorDetection.js build the same groups.
C4_Classification ==
    lpc # "classify" =>
        /\ \A b \in Builds :
              /\ groups[b].leftLines = SelectSeq(rows, PositiveAdmitted)
              /\ groups[b].rightLines = SelectSeq(rows, NegativeAdmitted)
              /\ \A i \in 1 .. Len(rows) :
                    /\ ~(InSeq(rows[i], groups[b].leftLines)
                          /\ InSeq(rows[i], groups[b].rightLines))
                    /\ (rows[i].x1 = rows[i].x2 \/ rows[i].y1 = rows[i].y2) =>
                          /\ ~InSeq(rows[i], groups[b].leftLines)
                          /\ ~InSeq(rows[i], groups[b].rightLines)
        /\ groups["app"] = groups["fd"]

\* a segment whose exact slope is below 0.1 was admitted to the positive
\* group because its rounded slope is 0.10
C4_RoundedUpAdmitted ==
    /\ lpc = "done"
    /\ Len(rows) = 1
    /\ 10 * Abs(rows[1].y2 - rows[1].y1) < Abs(rows[1].x2 - rows[1].x1)
    /\ groups["app"].leftLines = rows
    /\ groups["fd"].leftLines = rows

\* C5: one floor-midpoint convention in the build: for every pair of selected
\* best segments app.js and FloorDetection.js compute the same floorBottomY,
\* the average of the bottom-most endpoint y (max(y1, y2)) of each.
C5_OneConvention ==
    lpc = "done" =>
        /\ estimate["app"] = estimate["fd"]
        /\ \A b \in Builds :
              ~IsNull(estimate[b]) =>
                  LET l == Val(best[b].bestLeft)
                      r == Val(best[b].bestRight)
                  IN  2 * Val(estimate[b]).n =
                          (Max(l.y1, l.y2) + Max(r.y1, r.y2)) * Val(estimate[b]).d

(***************************************************************************)
(* Properties of the page (checked under Spec)                             *)
(***************************************************************************)
FloorMessage == last.msgs[1]

\* the conditions under which the block reaches UnityInstance.SendMessage
ReachesSend ==
    /\ last.hasEstimate
    /\ last.cameraEl
    /\ last.threw # "projection"
    /\ unityPresent
    /\ build = "fd" => pageEls.canvas /\ pageEls.video

\* C1 as stated: a frame with an estimate sends exactly one
\* OnReceiveFloorPosition message carrying the anchor; a frame without an
\* estimate sends none.
C1_OneMessagePerEstimate ==
    last.ran =>
        IF last.hasEstimate
        THEN Len(last.msgs) = 1 /\ FloorMessage.method = "OnReceiveFloorPosition"
        ELSE Len(last.msgs) = 0

\* C1 amended: a frame sends at most one OnReceiveFloorPosition message, and
\* sends one exactly when it has an estimate, the #camera element exists, the
\* projection does not throw and window.UnityInstance is set (and, in
\* FloorDetection.js, the page has the elements #canvas and #video); the
\* message carries the anchor {x, y, z}, which in app.js is the stored
\* currentFloorPosition.
C1_MessageIffSendReached ==
    last.ran =>
        /\ Len(last.msgs) <= 1
        /\ (Len(last.msgs) = 1) <=> ReachesSend
        /\ ~last.hasEstimate => Len(last.msgs) = 0
        /\ Len(last.msgs) = 1 =>
              /\ FloorMessage.object = "FloorDetector"
              /\ FloorMessage.method = "OnReceiveFloorPosition"
              /\ DOMAIN FloorMessage.payload.pos = {"x", "y", "z"}
              /\ \E d \in CamDirs :
                    /\ FloorMessage.payload.pos.x = DepthScale * d.x
                    /\ FloorMessage.payload.pos.z = DepthScale * d.z
              /\ build = "app" =>
                    /\ FloorMessage.payload.format = "json"
                    /\ currentFloorPosition = Some(FloorMessage.payload.pos)
              /\ build = "fd" => FloorMessage.payload.format = "csv"

\* a frame with an estimate has sent its message
C1_MessageSent ==
    /\ last.ran
    /\ last.hasEstimate
    /\ Len(last.msgs) = 1

\* C2 as stated: the stored floorBottomY and currentFloorPosition change only
\* in a frame that succeeds: a frame with an empty group, with a vision call
\* that throws, or without the camera element leaves both as they were.
C2_FailuresLeaveStored ==
    [][ (floorBottomY' # floorBottomY \/ currentFloorPosition' # currentFloorPosition)
            => /\ last'.hasEstimate
               /\ last'.threw \notin VisionSteps
               /\ last'.cameraEl ]_vars

\* C2 amended: floorBottomY and currentFloorPosition are absent at first and
\* are never reset to absent; a frame without an estimate (an empty group, a
\* vision call that throws) leaves both as they were; a frame with an
\* estimate always overwrites floorBottomY, also when the camera element is
\* missing or the projection throws; currentFloorPosition (app.js only) is
\* overwritten exactly by the frames with an estimate, a camera element and
\* no exception in the projection.
C2_StoredEstimate ==
    [][ /\ floorBottomY' # floorBottomY => last'.hasEstimate
        /\ currentFloorPosition' # currentFloorPosition =>
              /\ build = "app"
              /\ last'.hasEstimate /\ last'.cameraEl /\ last'.threw # "projection"
        /\ ~IsNull(floorBottomY) => ~IsNull(floorBottomY')
        /\ ~IsNull(currentFloorPosition) => ~IsNull(currentFloorPosition')
        /\ ~last'.ran => IsNull(floorBottomY') /\ IsNull(currentFloorPosition')
        /\ (last'.ran /\ last'.hasEstimate) =>
              /\ floorBottomY' = last'.estimate
              /\ (build = "app" /\ last'.cameraEl /\ last'.threw # "projection") =>
                    /\ ~IsNull(currentFloorPosition')
                    /\ Val(currentFloorPosition').y =
                          YUnity(Val(last'.estimate), last'.height) ]_vars

\* app.js processed a frame with an estimate while the camera element was
\* missing: floorBottomY holds the estimate, no anchor is stored
C2_EstimateWithoutCamera ==
    /\ build = "app"
    /\ last.ran
    /\ last.hasEstimate
    /\ ~last.cameraEl
    /\ floorBottomY = last.estimate
    /\ IsNull(currentFloorPosition)

\* C6: the anchor's y is -((floorBottomY / H) * 2 - 1) * 0.5 with H the height
\* of the frame that produced floorBottomY, and lies in [-0.5, 0.5].
C6_AnchorYFromFrameHeight ==
    (last.ran /\ Len(last.msgs) = 1) =>
        LET f == Val(last.estimate)
            H == RInt(last.height)
            y == FloorMessage.payload.pos.y
        IN  /\ y = RMul(RNeg(RSub(RMul(RDiv(f, H), RInt(2)), RInt(1))), Rat(1, 2))
            /\ RLe(Rat(-1, 2), y)
            /\ RLe(y, Rat(1, 2))

\* C7: every buffer a frame handler allocated has been released when it
\* finishes: no cv.Mat is live between frames.
C7_NoLiveBuffers == liveMats = 0

\* C8: no exception thrown while a frame is processed leaves its handler:
\* each is caught by the handler's own catch clause, every handler is at one
\* of its await points or finished, and a frame that waits for its image
\* keeps it whatever the frames before it did.
C8_NothingEscapes ==
    /\ ~escaped
    /\ last.threw # "none" => last.caught
    /\ \A id \in 1 .. Len(handlers) :
          /\ handlers[id].pc \in {"decoding", "awaitDetector", "awaitPoses", "done"}
          /\ handlers[id].pc = "decoding" => ~IsNull(handlers[id].frame)

\* a frame's floor block threw, the exception was caught, and another frame
\* is waiting to be processed
C8_ThrowCaught ==
    /\ last.ran
    /\ last.threw # "none"
    /\ last.caught
    /\ \E id \in 1 .. Len(handlers) : handlers[id].pc = "decoding"

\* C9: no frame is handed to processBothDetectors while cvReady or tfReady is
\* false.
C9_QueuedUntilReady ==
    [][ Len(handlers') > Len(handlers) => cvReady /\ tfReady ]_vars

\* C10: a frame's pose estimation reads the pixels of its own frame, and its
\* foot position is normalised by the dimensions of its own frame.
C10_ReadsOwnFrame ==
    /\ \A id \in 1 .. Len(handlers) :
          handlers[id].pc = "awaitPoses" => handlers[id].pixels = id
    /\ lastPose.ran => lastPose.pixelsOwn /\ lastPose.dimsOwn

====
